---- MODULE Spec2Model ----
(***************************************************************************)
(* Model of app.py, the "Activate Report Summarizer" Streamlit script:     *)
(* read file -> guess columns -> select boxes -> validate -> booleans ->   *)
(* segment counts -> duplicate count -> table.                             *)
(*                                                                         *)
(* Text values are TLA+ strings; TLC evaluates Len, SubSeq and \o on them, *)
(* so normalisation, trimming, lower-casing and substring search are       *)
(* computed character by character as the Python code does.                *)
(***************************************************************************)
EXTENDS Integers, Sequences, FiniteSets, TLC

VARIABLES
    file,             \* the uploaded file (st.file_uploader), or NoFile
    sel,              \* the four selectbox widget values, by role
    touched,          \* roles whose selectbox the user changed since upload
    run,              \* outcome of the last execution of the script
    cols,             \* guesser study: the column labels, in dataset order
    guesses,          \* guesser study: the four guess_* results
    series,           \* extractor study: one raw column
    signal,           \* extractor study: result of to_bool_series
    vec,              \* segment study: the four boolean row vectors
    metrics,          \* segment study: the metrics dictionary
    phones,           \* duplicate study: the 'Phone Number' column
    duplicate_leads   \* duplicate study: the duplicate count

vars == <<file, sel, touched, run, cols, guesses, series, signal,
          vec, metrics, phones, duplicate_leads>>

----------------------------------------------------------------------------
(* Bounds of the studies                                                   *)

MaxCols == 3          \* guesser study: longest list of column labels
MaxLen == 3           \* extractor study: longest raw column
MaxRows == 3          \* segment study: largest dataset
MaxPhones == 4        \* duplicate study: largest dataset

----------------------------------------------------------------------------
(* Python string primitives                                                *)

CharAt(str, i) == SubSeq(str, i, i)

UpperChars == "ABCDEFGHIJKLMNOPQRSTUVWXYZ"
LowerChars == "abcdefghijklmnopqrstuvwxyz"
DigitChars == "0123456789"

InChars(c, chars) == \E i \in 1..Len(chars) : CharAt(chars, i) = c

\* str.lower() on one character
lower_char(c) ==
    IF InChars(c, UpperChars)
    THEN CharAt(LowerChars, CHOOSE i \in 1..Len(UpperChars) : CharAt(UpperChars, i) = c)
    ELSE c

RECURSIVE lower(_)
lower(str) ==
    IF Len(str) = 0 THEN ""
    ELSE lower_char(CharAt(str, 1)) \o lower(SubSeq(str, 2, Len(str)))

IsSpace(c) == c = " "

RECURSIVE lstrip(_)
lstrip(str) ==
    IF Len(str) > 0 /\ IsSpace(CharAt(str, 1))
    THEN lstrip(SubSeq(str, 2, Len(str)))
    ELSE str

RECURSIVE rstrip(_)
rstrip(str) ==
    IF Len(str) > 0 /\ IsSpace(CharAt(str, Len(str)))
    THEN rstrip(SubSeq(str, 1, Len(str) - 1))
    ELSE str

\* str.strip()
strip(str) == rstrip(lstrip(str))

\* the character class [a-z0-9]
IsAlnumLower(c) == InChars(c, LowerChars) \/ InChars(c, DigitChars)

\* re.sub(r"[^a-z0-9]+", "", str): every run of other characters is removed
RECURSIVE re_sub_non_alnum(_)
re_sub_non_alnum(str) ==
    IF Len(str) = 0 THEN ""
    ELSE (IF IsAlnumLower(CharAt(str, 1)) THEN CharAt(str, 1) ELSE "")
         \o re_sub_non_alnum(SubSeq(str, 2, Len(str)))

\* the Python test  k in n  on strings
Contains(k, n) ==
    \E i \in 1..(Len(n) - Len(k) + 1) : SubSeq(n, i, i + Len(k) - 1) = k

----------------------------------------------------------------------------
(* Helpers: normalize and guess_column                                     *)

normalize(label) == re_sub_non_alnum(lower(strip(label)))

None == [some |-> FALSE, col |-> ""]
Some(c) == [some |-> TRUE, col |-> c]

\* any(k in n for k in keywords)
AnyKeyword(n, keywords) == \E j \in 1..Len(keywords) : Contains(keywords[j], n)

\* a plausible slip: the keyword list is scanned first, so an earlier keyword
\* wins over an earlier column
RECURSIVE guess_column_keyword_first(_, _)
guess_column_keyword_first(columns, keywords) ==
    IF Len(keywords) = 0 THEN None
    ELSE LET hit == {i \in 1..Len(columns) : Contains(Head(keywords), normalize(columns[i]))}
         IN  IF hit # {}
             THEN Some(columns[CHOOSE i \in hit : \A j \in hit : i <= j])
             ELSE guess_column_keyword_first(columns, Tail(keywords))

\* for c, n in norm_map.items(): if any(...): return c  ...  return None
RECURSIVE guess_column_from(_, _, _)
guess_column_from(columns, keywords, i) ==
    IF i > Len(columns) THEN None
    ELSE IF AnyKeyword(normalize(columns[i]), keywords) THEN Some(columns[i])
    ELSE guess_column_from(columns, keywords, i + 1)

guess_column(columns, keywords) == guess_column_from(columns, keywords, 1)

Roles == <<"Calls Attempted", "Calls Connected", "WhatsApp Sent", "WhatsApp Received">>
RoleSet == {Roles[i] : i \in 1..Len(Roles)}

kw_call_attempted ==
    <<"attemptedcall", "callsattempted", "callattempt", "dialed", "callsdialed",
      "attempt", "outboundattempt">>
kw_call_connected ==
    <<"connectedcall", "callsconnected", "callconnected", "callanswer", "answered",
      "connected", "successfulcall">>
kw_wa_sent ==
    <<"sentwhatsapp", "sentwa", "whatsappsnt", "wasent", "wamsg", "msgsent",
      "whatsappsent", "wadelivered", "whatsappdelivered">>
kw_wa_received ==
    <<"receivedwhatsapp", "receivedwa", "wareceived", "msgreceived",
      "whatsappreceived", "replied", "whatsappreply", "warcvd">>

Keywords(role) ==
    CASE role = "Calls Attempted" -> kw_call_attempted
      [] role = "Calls Connected" -> kw_call_connected
      [] role = "WhatsApp Sent" -> kw_wa_sent
      [] role = "WhatsApp Received" -> kw_wa_received

\* the compound conditions of the "fallback soft search", on a normalized label
SoftMatch(role, n) ==
    CASE role = "Calls Attempted" ->
            Contains("call", n)
            /\ (Contains("attempt", n) \/ Contains("dial", n) \/ Contains("made", n))
      [] role = "Calls Connected" ->
            Contains("call", n)
            /\ (Contains("connect", n) \/ Contains("answer", n) \/ Contains("success", n))
      [] role = "WhatsApp Sent" ->
            (Contains("wa", n) \/ Contains("whatsapp", n))
            /\ (Contains("send", n) \/ Contains("sent", n) \/ Contains("deliver", n)
                \/ Contains("attempt", n))
      [] role = "WhatsApp Received" ->
            (Contains("wa", n) \/ Contains("whatsapp", n))
            /\ (Contains("receive", n) \/ Contains("reply", n) \/ Contains("rcvd", n))

\* for c in cols: n = normalize(c); if <condition>: guess = c; break
RECURSIVE soft_search_from(_, _, _)
soft_search_from(columns, role, i) ==
    IF i > Len(columns) THEN None
    ELSE IF SoftMatch(role, normalize(columns[i])) THEN Some(columns[i])
    ELSE soft_search_from(columns, role, i + 1)

\* guess_x = guess_column(cols, [...]); if guess_x is None: <soft search>
guess(columns, role) ==
    LET primary == guess_column(columns, Keywords(role))
    IN  IF primary = None THEN soft_search_from(columns, role, 1) ELSE primary

----------------------------------------------------------------------------
(* Raw cell values of a pandas column                                      *)

\* kind: "bool" (Python bool), "num" (int/float), "str", "nan" (missing),
\* "bad" (a malformed value on which pandas' conversion raises)
BoolCell(v) == [kind |-> "bool", b |-> v, n |-> 0, text |-> ""]
NumCell(v) == [kind |-> "num", b |-> FALSE, n |-> v, text |-> ""]
StrCell(v) == [kind |-> "str", b |-> FALSE, n |-> 0, text |-> v]
NaN == [kind |-> "nan", b |-> FALSE, n |-> 0, text |-> ""]
BadCell == [kind |-> "bad", b |-> FALSE, n |-> 0, text |-> ""]

Rows(column) == 1..Len(column)

\* A pandas Series holds its values; the row-wise results below are turned
\* into stored sequences rather than kept as unevaluated functions.
Stored(f) == f \o <<>>

\* s.dtype == bool: pandas gives a column the bool dtype only when every cell
\* is a bool and none is missing
dtype_is_bool(column) ==
    Len(column) > 0 /\ \A i \in Rows(column) : column[i].kind = "bool"

DigitValue(c) == (CHOOSE i \in 1..Len(DigitChars) : CharAt(DigitChars, i) = c) - 1

AllDigits(str) == Len(str) > 0 /\ \A i \in 1..Len(str) : InChars(CharAt(str, i), DigitChars)

RECURSIVE ParseDigits(_, _)
ParseDigits(str, acc) ==
    IF Len(str) = 0 THEN acc
    ELSE ParseDigits(SubSeq(str, 2, Len(str)), acc * 10 + DigitValue(CharAt(str, 1)))

NotANumber == [ok |-> FALSE, v |-> 0]
Number(v) == [ok |-> TRUE, v |-> v]

\* the numeric parser on text: surrounding blanks are skipped, an optional
\* sign, then digits (integers are all the model's texts hold)
ParseText(str) ==
    LET body == strip(str)
        signed == Len(body) > 0 /\ CharAt(body, 1) \in {"-", "+"}
        digits == IF signed THEN SubSeq(body, 2, Len(body)) ELSE body
    IN  IF ~AllDigits(digits) THEN NotANumber
        ELSE IF signed /\ CharAt(body, 1) = "-" THEN Number(0 - ParseDigits(digits, 0))
        ELSE Number(ParseDigits(digits, 0))

\* pd.to_numeric(s, errors="coerce"), cell by cell: numbers stay, bools become
\* 1/0, text is parsed, everything else is NaN
to_numeric(cell) ==
    CASE cell.kind = "num" -> Number(cell.n)
      [] cell.kind = "bool" -> Number(IF cell.b THEN 1 ELSE 0)
      [] cell.kind = "str" -> ParseText(cell.text)
      [] OTHER -> NotANumber

RECURSIVE DigitsOf(_)
DigitsOf(n) ==
    IF n < 10 THEN CharAt(DigitChars, n + 1)
    ELSE DigitsOf(n \div 10) \o CharAt(DigitChars, (n % 10) + 1)

\* s.astype(str), cell by cell
astype_str(cell) ==
    CASE cell.kind = "str" -> cell.text
      [] cell.kind = "bool" -> (IF cell.b THEN "True" ELSE "False")
      [] cell.kind = "num" -> (IF cell.n < 0 THEN "-" \o DigitsOf(0 - cell.n) ELSE DigitsOf(cell.n))
      [] OTHER -> "nan"

true_set == {"yes", "y", "true", "t", "1", "connected", "done", "received",
             "delivered", "answer", "answered", "success"}

\* a plausible slip: the interpretation is decided cell by cell instead of
\* once for the whole column
to_bool_series_per_cell(column) ==
    [i \in Rows(column) |->
        IF column[i].kind = "bool" THEN column[i].b
        ELSE IF to_numeric(column[i]).ok THEN to_numeric(column[i]).v > 0
        ELSE lower(strip(astype_str(column[i]))) \in true_set]

to_bool_series(column) ==
    IF dtype_is_bool(column)
    THEN \* return s.fillna(False)
         Stored([i \in Rows(column) |-> IF column[i].kind = "nan" THEN FALSE ELSE column[i].b])
    ELSE LET snum == Stored([i \in Rows(column) |-> to_numeric(column[i])])
         IN  IF \E i \in Rows(column) : snum[i].ok
             THEN \* return (snum.fillna(0) > 0)
                  Stored([i \in Rows(column) |-> (IF snum[i].ok THEN snum[i].v ELSE 0) > 0])
             ELSE \* return str_vals.isin(true_set)
                  Stored([i \in Rows(column) |->
                            lower(strip(astype_str(column[i]))) \in true_set])

\* the conversion raises (caught at "except Exception as e")
Raises(column) == \E i \in Rows(column) : column[i].kind = "bad"

----------------------------------------------------------------------------
(* Metrics                                                                 *)

VOr(a, b) == Stored([i \in Rows(a) |-> a[i] \/ b[i]])
VAnd(a, b) == Stored([i \in Rows(a) |-> a[i] /\ b[i]])
VNot(a) == Stored([i \in Rows(a) |-> ~a[i]])

\* int(m.sum())
RECURSIVE VSum(_)
VSum(m) == IF Len(m) = 0 THEN 0 ELSE (IF Head(m) THEN 1 ELSE 0) + VSum(Tail(m))

SegEither == "Leads Connected by Either WhatsApp or Call (Connectivity)"
SegOnlyCalls == "Only Connected on Calls"
SegOnlyCallsWaAttempted == "Only Connected on Calls and WhatsApp Also Got Attempted"
SegOnlyWa == "Only Connected on WhatsApp"
SegBoth == "Leads Connected on Both WhatsApp and Call"
SegNeither == "Leads Where No WhatsApp and Calls Were Attempted (Call & WhatsApp = 0)"
SegNoCalls == "No Calls Attempted"
SegNoCallsWa == "No Calls Attempted but WhatsApp Attempted"
SegNoWa == "No WhatsApp Attempted"
SegNoWaCalls == "No WhatsApp but Calls Attempted"
SegTotal == "Total Leads"
SegDuplicate == "Duplicate Leads"

\* the ten row masks
m1(call_connected, wa_connected) == VOr(call_connected, wa_connected)

\* a plausible slip: the negation of wa_connected is lost
m2_no_negation(call_connected, wa_connected) == VAnd(call_connected, wa_connected)

m2(call_connected, wa_connected) == VAnd(call_connected, VNot(wa_connected))
m3(call_connected, wa_connected) == VAnd(wa_connected, VNot(call_connected))
m4(call_attempted) == VNot(call_attempted)
m5(wa_attempted) == VNot(wa_attempted)

\* a plausible slip: "no WhatsApp and calls attempted" read as "not both"
m6_not_both(call_attempted, wa_attempted) == VNot(VAnd(call_attempted, wa_attempted))

m6(call_attempted, wa_attempted) == VAnd(VNot(call_attempted), VNot(wa_attempted))
m7(call_connected, wa_connected) == VAnd(call_connected, wa_connected)

\* a plausible slip: wa_received is tested instead of its negation
m8_received(call_connected, wa_sent, wa_received) ==
    VAnd(VAnd(call_connected, wa_sent), wa_received)

m8(call_connected, wa_sent, wa_received) ==
    VAnd(VAnd(call_connected, wa_sent), VNot(wa_received))
m9(call_attempted, wa_attempted) == VAnd(VNot(call_attempted), wa_attempted)
m10(call_attempted, wa_attempted) == VAnd(call_attempted, VNot(wa_attempted))

\* wa_attempted = wa_sent, wa_connected = wa_received, and the ten
\* int(m.sum()) entries of the metrics dictionary
segment_metrics(call_attempted, call_connected, wa_sent, wa_received) ==
    LET wa_attempted == wa_sent
        wa_connected == wa_received
    IN  (SegEither :> VSum(m1(call_connected, wa_connected)))
     @@ (SegOnlyCalls :> VSum(m2(call_connected, wa_connected)))
     @@ (SegOnlyCallsWaAttempted :> VSum(m8(call_connected, wa_sent, wa_received)))
     @@ (SegOnlyWa :> VSum(m3(call_connected, wa_connected)))
     @@ (SegBoth :> VSum(m7(call_connected, wa_connected)))
     @@ (SegNeither :> VSum(m6(call_attempted, wa_attempted)))
     @@ (SegNoCalls :> VSum(m4(call_attempted)))
     @@ (SegNoCallsWa :> VSum(m9(call_attempted, wa_attempted)))
     @@ (SegNoWa :> VSum(m5(wa_attempted)))
     @@ (SegNoWaCalls :> VSum(m10(call_attempted, wa_attempted)))

\* total_leads = len(df)
total_leads(nrows) == nrows

\* a plausible slip: keep="first" (the default), which leaves the first
\* occurrence of each group unmarked
duplicated_keep_first(column) ==
    [i \in Rows(column) |-> \E j \in Rows(column) : j < i /\ column[j] = column[i]]

\* df.duplicated(subset=[...], keep=False): a row is marked when its value
\* occurs in any other row (missing values compare equal to each other)
duplicated_keep_false(column) ==
    [i \in Rows(column) |-> \E j \in Rows(column) : j # i /\ column[j] = column[i]]

\* df[mask].shape[0]
RECURSIVE FilterRows(_, _)
FilterRows(mask, i) ==
    IF i > Len(mask) THEN <<>>
    ELSE (IF mask[i] THEN <<i>> ELSE <<>>) \o FilterRows(mask, i + 1)

count_duplicate_leads(column) == Len(FilterRows(duplicated_keep_false(column), 1))

----------------------------------------------------------------------------
(* Values of the variables a study does not use                            *)

NoFile == [present |-> FALSE, readable |-> FALSE, cols |-> <<>>, data |-> <<>>, nrows |-> 0]
NotComputed == [done |-> FALSE, value |-> <<>>]
Computed(v) == [done |-> TRUE, value |-> v]
NoRun == [status |-> "none", steps |-> <<>>, missing |-> <<>>, used |-> <<>>,
          table |-> <<>>]
NoVec == [call_attempted |-> <<>>, call_connected |-> <<>>, wa_sent |-> <<>>,
          wa_received |-> <<>>]

AppIdle == file = NoFile /\ sel = <<>> /\ touched = {} /\ run = NoRun
GuessIdle == cols = <<>> /\ guesses = NotComputed
SignalIdle == series = <<>> /\ signal = NotComputed
SegmentIdle == vec = NoVec /\ metrics = NotComputed
DuplicateIdle == phones = <<>> /\ duplicate_leads = NotComputed

appVars == <<file, sel, touched, run>>
guessVars == <<cols, guesses>>
signalVars == <<series, signal>>
segmentVars == <<vec, metrics>>
duplicateVars == <<phones, duplicate_leads>>

SeqsUpTo(S, n) == UNION {[1..k -> S] : k \in 1..n}
DistinctSeqsUpTo(S, n) ==
    {q \in SeqsUpTo(S, n) : \A i, j \in 1..Len(q) : q[i] = q[j] => i = j}

----------------------------------------------------------------------------
(* Guesser study: guess_column and the soft search on lists of labels      *)

GuessLabelPool ==
    {"Dialed", "Attempted Call", "Calls Made", "Call Success", "Connected",
     "WA Sent?", "WA Reply", "Name"}

InitGuess ==
    /\ cols \in DistinctSeqsUpTo(GuessLabelPool, MaxCols)
    /\ guesses = NotComputed
    /\ AppIdle /\ SignalIdle /\ SegmentIdle /\ DuplicateIdle

GuessColumns ==
    /\ ~guesses.done
    /\ guesses' = Computed([r \in RoleSet |-> guess(cols, r)])
    /\ UNCHANGED <<cols, appVars, signalVars, segmentVars, duplicateVars>>

NextGuess == GuessColumns

SpecGuess == InitGuess /\ [][NextGuess]_vars

----------------------------------------------------------------------------
(* Extractor study: to_bool_series on one raw column                       *)

CellPool ==
    {BoolCell(TRUE), BoolCell(FALSE), NaN, NumCell(0), NumCell(1), NumCell(0 - 2),
     StrCell("3"), StrCell("Yes"), StrCell(" TRUE "), StrCell("maybe"), StrCell("")}

InitSignal ==
    /\ series \in SeqsUpTo(CellPool, MaxLen)
    /\ signal = NotComputed
    /\ AppIdle /\ GuessIdle /\ SegmentIdle /\ DuplicateIdle

ExtractSignal ==
    /\ ~signal.done
    /\ signal' = Computed(to_bool_series(series))
    /\ UNCHANGED <<series, appVars, guessVars, segmentVars, duplicateVars>>

NextSignal == ExtractSignal

SpecSignal == InitSignal /\ [][NextSignal]_vars

----------------------------------------------------------------------------
(* Segment study: the metrics on four boolean row vectors                  *)

InitSegment ==
    /\ \E n \in 1..MaxRows :
          vec \in [call_attempted : [1..n -> BOOLEAN], call_connected : [1..n -> BOOLEAN],
                   wa_sent : [1..n -> BOOLEAN], wa_received : [1..n -> BOOLEAN]]
    /\ metrics = NotComputed
    /\ AppIdle /\ GuessIdle /\ SignalIdle /\ DuplicateIdle

ComputeMetrics ==
    /\ ~metrics.done
    /\ metrics' = Computed(
            segment_metrics(vec.call_attempted, vec.call_connected, vec.wa_sent,
                            vec.wa_received)
            @@ (SegTotal :> total_leads(Len(vec.call_attempted))))
    /\ UNCHANGED <<vec, appVars, guessVars, signalVars, duplicateVars>>

NextSegment == ComputeMetrics

SpecSegment == InitSegment /\ [][NextSegment]_vars

----------------------------------------------------------------------------
(* Duplicate study: the duplicate count on a 'Phone Number' column         *)

PhonePool == {StrCell("555-1"), StrCell("555-2"), StrCell("555-3"), NaN}

InitDuplicate ==
    /\ phones \in SeqsUpTo(PhonePool, MaxPhones)
    /\ duplicate_leads = NotComputed
    /\ AppIdle /\ GuessIdle /\ SignalIdle /\ SegmentIdle

CountDuplicates ==
    /\ ~duplicate_leads.done
    /\ duplicate_leads' = Computed(count_duplicate_leads(phones))
    /\ UNCHANGED <<phones, appVars, guessVars, signalVars, segmentVars>>

NextDuplicate == CountDuplicates

SpecDuplicate == InitDuplicate /\ [][NextDuplicate]_vars

----------------------------------------------------------------------------
(* The script: one execution from top to bottom, as Streamlit performs on  *)
(* every upload and every widget change                                    *)

Sentinel == "-- select --"
PhoneLabel == "Phone Number"

\* cols.index(label) (1-based here)
IndexOf(columns, label) == CHOOSE i \in 1..Len(columns) : columns[i] = label
InCols(columns, label) == \E i \in 1..Len(columns) : columns[i] = label

\* df[label]
column_of(f, label) == f.data[IndexOf(f.cols, label)]

\* a plausible slip: the emptiness test never fires (e.g. "df is None")
df_empty_never(f) == FALSE

\* df.empty: no rows or no columns
df_empty(f) == f.nrows = 0 \/ Len(f.cols) = 0

\* a plausible slip: every box starts on the sentinel, whatever the guess
selectbox_default_unselected(columns, g) == Sentinel

\* st.selectbox(label, options=["-- select --"] + cols, index=...): the value
\* shown when the user has not changed the widget
selectbox_default(columns, g) ==
    LET options == <<Sentinel>> \o columns
        index == IF g.some /\ InCols(columns, g.col) THEN IndexOf(columns, g.col) + 1 ELSE 1
    IN  options[index]

default_selection(columns) ==
    [r \in RoleSet |-> selectbox_default(columns, guess(columns, r))]

RECURSIVE missing_from(_, _)
missing_from(selection, i) ==
    IF i > Len(Roles) THEN <<>>
    ELSE (IF selection[Roles[i]] = Sentinel THEN <<Roles[i]>> ELSE <<>>)
         \o missing_from(selection, i + 1)

\* a plausible slip: the "required" dictionary omits the last role
missing_roles_three(selection) ==
    SelectSeq(missing_from(selection, 1), LAMBDA r : r # Roles[Len(Roles)])

\* missing = [name for name, sel in required.items() if sel == "-- select --"]
missing_roles(selection) == missing_from(selection, 1)

\* a plausible slip: the lookup is guarded and the count falls back to 0
duplicate_lookup_guarded(f) ==
    IF InCols(f.cols, PhoneLabel)
    THEN [raised |-> FALSE, value |-> count_duplicate_leads(column_of(f, PhoneLabel))]
    ELSE [raised |-> FALSE, value |-> 0]

\* duplicate_leads = df[df.duplicated(subset=['Phone Number'], keep=False)].shape[0]
\* raises KeyError when the dataset has no column with exactly that label
duplicate_lookup(f) ==
    IF InCols(f.cols, PhoneLabel)
    THEN [raised |-> FALSE, value |-> count_duplicate_leads(column_of(f, PhoneLabel))]
    ELSE [raised |-> TRUE, value |-> 0]

\* the segment_hierarchy data frame handed to st.dataframe
segment_hierarchy(mv) ==
    << [Hierarchy |-> SegEither, Count |-> mv[SegEither]],
       [Hierarchy |-> "  Only Connected on Calls", Count |-> mv[SegOnlyCalls]],
       [Hierarchy |-> "    Only Connected on Calls and WhatsApp Also Got Attempted", Count |-> mv[SegOnlyCallsWaAttempted]],
       [Hierarchy |-> "  Only Connected on WhatsApp", Count |-> mv[SegOnlyWa]],
       [Hierarchy |-> "  Leads Connected on Both WhatsApp and Call", Count |-> mv[SegBoth]],
       [Hierarchy |-> SegNeither, Count |-> mv[SegNeither]],
       [Hierarchy |-> "  No Calls Attempted", Count |-> mv[SegNoCalls]],
       [Hierarchy |-> "    No Calls Attempted but WhatsApp Attempted", Count |-> mv[SegNoCallsWa]],
       [Hierarchy |-> "  No WhatsApp Attempted", Count |-> mv[SegNoWa]],
       [Hierarchy |-> "    No WhatsApp but Calls Attempted", Count |-> mv[SegNoWaCalls]],
       [Hierarchy |-> SegTotal, Count |-> mv[SegTotal]],
       [Hierarchy |-> SegDuplicate, Count |-> mv[SegDuplicate]] >>

Outcome(status, steps, missing, used, table) ==
    [status |-> status, steps |-> steps, missing |-> missing, used |-> used,
     table |-> table]

StepsToMapping == <<"upload", "read", "empty_check", "guess", "selectboxes", "validate">>

\* The script body after the select boxes, for the widget values `selection`.
ScriptFromValidation(f, selection) ==
    LET missing == missing_roles(selection)
        used == [r \in RoleSet |-> selection[r]]
        \* df[col] and to_bool_series are both inside the try block
        raised == \E r \in RoleSet :
                     \/ ~InCols(f.cols, selection[r])
                     \/ Raises(column_of(f, selection[r]))
        dup == duplicate_lookup(f)
        call_attempted == to_bool_series(column_of(f, selection["Calls Attempted"]))
        call_connected == to_bool_series(column_of(f, selection["Calls Connected"]))
        wa_sent == to_bool_series(column_of(f, selection["WhatsApp Sent"]))
        wa_received == to_bool_series(column_of(f, selection["WhatsApp Received"]))
        mv == segment_metrics(call_attempted, call_connected, wa_sent, wa_received)
              @@ (SegTotal :> total_leads(f.nrows))
              @@ (SegDuplicate :> dup.value)
    IN  IF missing # <<>>
        THEN \* st.warning(f"Please select: ..."); st.stop()
             Outcome("select", StepsToMapping, missing, <<>>, <<>>)
        ELSE IF raised
        THEN \* st.error(f"Error interpreting columns: {e}"); st.stop()
             Outcome("interp_error", StepsToMapping \o <<"booleans">>, <<>>, used, <<>>)
        ELSE IF dup.raised
        THEN \* uncaught KeyError: Streamlit shows the exception, the run ends
             Outcome("exception",
                     StepsToMapping \o <<"booleans", "masks", "duplicates">>, <<>>, used, <<>>)
        ELSE Outcome("done",
                     StepsToMapping \o <<"booleans", "masks", "duplicates", "metrics", "table">>,
                     <<>>, used, segment_hierarchy(mv))

\* Whether an execution on file f gets as far as rendering the select boxes.
RendersSelectboxes(f) == f.present /\ f.readable /\ ~df_empty(f)

\* One whole execution.  `widgets` holds the values of the select boxes the
\* user has set, or <<>> when the boxes have no state yet (first rendering).
Script(f, widgets) ==
    IF ~f.present
    THEN \* st.info("Waiting for a file..."); st.stop()
         Outcome("waiting", <<"upload">>, <<>>, <<>>, <<>>)
    ELSE IF ~f.readable
    THEN \* st.error(f"Could not read file: {e}"); st.stop()
         Outcome("read_error", <<"upload", "read">>, <<>>, <<>>, <<>>)
    ELSE IF df_empty(f)
    THEN \* st.warning("Your file seems to be empty."); st.stop()
         Outcome("empty", <<"upload", "read", "empty_check">>, <<>>, <<>>, <<>>)
    ELSE ScriptFromValidation(f, IF widgets = <<>> THEN default_selection(f.cols) ELSE widgets)

\* User-visible message of an outcome: <<Streamlit call, kind>>
Message(status) ==
    CASE status = "waiting" -> <<"st.info", "waiting">>
      [] status = "read_error" -> <<"st.error", "Could not read file">>
      [] status = "empty" -> <<"st.warning", "Your file seems to be empty.">>
      [] status = "select" -> <<"st.warning", "Please select">>
      [] status = "interp_error" -> <<"st.error", "Error interpreting columns">>
      [] status = "exception" -> <<"exception", "KeyError">>
      [] OTHER -> <<"none", "">>

----------------------------------------------------------------------------
(* The files the user may upload                                           *)

N0 == NumCell(0)
N1 == NumCell(1)
Yes == StrCell("Yes")
No == StrCell("no")

DataFile(columns, data) ==
    [present |-> TRUE, readable |-> TRUE, cols |-> columns, data |-> data,
     nrows |-> IF Len(data) = 0 THEN 0 ELSE Len(data[1])]

\* a file pandas cannot parse
FileUnreadable ==
    [present |-> TRUE, readable |-> FALSE, cols |-> <<>>, data |-> <<>>, nrows |-> 0]

\* a header row and no data rows
FileHeaderOnly ==
    DataFile(<<PhoneLabel, "Calls Attempted", "Calls Connected", "WA Sent", "WA Received">>,
             << <<>>, <<>>, <<>>, <<>>, <<>> >>)

\* the four-row scenario: every role has a keyword column
FileScenario ==
    DataFile(<<PhoneLabel, "Calls Attempted", "Calls Connected", "WA Sent", "WA Received">>,
             << <<StrCell("555-1"), StrCell("555-1"), StrCell("555-2"), StrCell("555-3")>>,
                <<N1, N1, N0, N0>>,
                <<N1, N0, N0, N0>>,
                <<N1, N1, N1, N0>>,
                <<N0, N1, N0, N0>> >>)

\* the same columns without the phone column
FileNoPhone ==
    DataFile(<<"Calls Attempted", "Calls Connected", "WA Sent", "WA Received">>,
             << <<N1, N0>>, <<Yes, No>>, <<N1, N1>>, <<BoolCell(FALSE), BoolCell(TRUE)>> >>)

\* labels no keyword or soft condition matches
FileUnguessable ==
    DataFile(<<PhoneLabel, "Rang", "Msg">>,
             << <<StrCell("555-1"), StrCell("555-2"), StrCell("555-1")>>,
                <<Yes, No, NaN>>,
                <<N1, N0, StrCell("3")>> >>)

\* two roles guessed, two not, no phone column
FilePartial ==
    DataFile(<<"Attempt", "Connected", "Note">>,
             << <<N1, N0>>, <<N0, N0>>, <<StrCell("maybe"), Yes>> >>)

\* one column holds a malformed value
FileMalformed ==
    DataFile(<<PhoneLabel, "Dialed", "Odd">>,
             << <<StrCell("555-1"), StrCell("555-2")>>,
                <<N1, N0>>,
                <<BadCell, N1>> >>)

\* a malformed value and no phone column
FileMalformedNoPhone ==
    DataFile(<<"Answered", "Odd">>,
             << <<N1, N0>>, <<BadCell, N1>> >>)

Files == {FileUnreadable, FileHeaderOnly, FileScenario, FileNoPhone, FileUnguessable,
          FilePartial, FileMalformed, FileMalformedNoPhone}

----------------------------------------------------------------------------
(* The application: uploads and widget changes, each a full script run     *)

Init ==
    /\ file = NoFile
    /\ sel = <<>>
    /\ touched = {}
    /\ run = Script(NoFile, <<>>)
    /\ GuessIdle /\ SignalIdle /\ SegmentIdle /\ DuplicateIdle

studyVars == <<guessVars, signalVars, segmentVars, duplicateVars>>

\* The user uploads a file; the select boxes are rendered with their defaults.
Upload(f) ==
    /\ ~file.present
    /\ file' = f
    /\ touched' = {}
    /\ sel' = IF RendersSelectboxes(f) THEN default_selection(f.cols) ELSE <<>>
    /\ run' = Script(f, <<>>)
    /\ UNCHANGED studyVars

\* The user removes the file; the select boxes disappear with their state.
RemoveFile ==
    /\ file.present
    /\ file' = NoFile
    /\ touched' = {}
    /\ sel' = <<>>
    /\ run' = Script(NoFile, <<>>)
    /\ UNCHANGED studyVars

\* options=["-- select --"] + cols
Options(f) == {Sentinel} \cup {f.cols[i] : i \in 1..Len(f.cols)}

\* The user picks another option in the select box of one role.
Select(role, option) ==
    /\ RendersSelectboxes(file)
    /\ option \in Options(file)
    /\ option # sel[role]
    /\ sel' = [sel EXCEPT ![role] = option]
    /\ touched' = touched \cup {role}
    /\ run' = Script(file, [sel EXCEPT ![role] = option])
    /\ UNCHANGED <<file, studyVars>>

Next ==
    \/ \E f \in Files : Upload(f)
    \/ RemoveFile
    \/ \E role \in RoleSet, option \in Options(file) : Select(role, option)

Spec == Init /\ [][Next]_vars

----------------------------------------------------------------------------
(* Claims on the segment calculator                                        *)

C10_AttemptedSegmentsRelated ==
    metrics.done =>
        LET mv == metrics.value
        IN  /\ mv[SegNoCalls] = mv[SegNeither] + mv[SegNoCallsWa]
            /\ mv[SegNoWa] = mv[SegNeither] + mv[SegNoWaCalls]
            /\ mv[SegOnlyCallsWaAttempted] <= mv[SegOnlyCalls]
            /\ mv[SegNeither] <= mv[SegNoCalls]
            /\ mv[SegNeither] <= mv[SegNoWa]

\* a computed dataset where the outer row is strictly smaller than both rows
\* indented beneath it
C10_Witness ==
    /\ metrics.done
    /\ metrics.value[SegNeither] >= 1
    /\ metrics.value[SegNeither] < metrics.value[SegNoCalls]
    /\ metrics.value[SegNeither] < metrics.value[SegNoWa]

----------------------------------------------------------------------------
(* Claim on the signal extractor                                           *)

\* C5: the interpretation is decided once per column, in priority order, and
\* the output has the input's length and row order: (1) every non-missing
\* value a bool: bools pass through, missing is false; (2) else at least one
\* value parses as a number: a row is true iff its parsed value is > 0,
\* unparsable and missing rows false; (3) else a row is true iff its trimmed,
\* lower-cased text is one of the twelve true words.  "Parses as a number"
\* is what the numeric parser accepts (a bool among other values parses as
\* 1 or 0).
C5_SignalPriorityOrder ==
    signal.done =>
        LET out == signal.value
            allBool == \A i \in Rows(series) :
                          series[i].kind # "nan" => series[i].kind = "bool"
            someNumber == \E i \in Rows(series) : to_numeric(series[i]).ok
        IN  /\ DOMAIN out = Rows(series)
            /\ \A i \in Rows(series) :
                  out[i] = IF allBool
                           THEN series[i].kind = "bool" /\ series[i].b
                           ELSE IF someNumber
                           THEN to_numeric(series[i]).ok /\ to_numeric(series[i]).v > 0
                           ELSE /\ series[i].kind = "str"
                                /\ lower(strip(series[i].text)) \in true_set

\* an extracted column holding a number and the text "Yes": the column is
\* numeric, so the "Yes" row is false
C5_Witness ==
    /\ signal.done
    /\ \E i, j \in Rows(series) :
          /\ series[i] = StrCell("Yes") /\ ~signal.value[i]
          /\ series[j] = NumCell(1) /\ signal.value[j]

----------------------------------------------------------------------------
(* Claim on the duplicate count                                            *)

PhoneGroup(column, v) == {i \in Rows(column) : column[i] = v}

RECURSIVE SumGroups(_, _)
SumGroups(column, values) ==
    IF values = {} THEN 0
    ELSE LET v == CHOOSE x \in values : TRUE
             size == Cardinality(PhoneGroup(column, v))
         IN  (IF size >= 2 THEN size ELSE 0) + SumGroups(column, values \ {v})

\* C6: Duplicate Leads is the number of rows whose 'Phone Number' value is
\* shared with another row: every member of every group of size >= 2 under
\* exact-value grouping, no row with a unique value, whatever the row order.
C6_DuplicateLeadsCountsGroups ==
    duplicate_leads.done =>
        LET n == Len(phones)
            values == {phones[i] : i \in 1..n}
        IN  /\ duplicate_leads.value = SumGroups(phones, values)
            /\ \A p \in Permutations(1..n) :
                  count_duplicate_leads([i \in 1..n |-> phones[p[i]]])
                      = duplicate_leads.value

\* the example 555-1, 555-1, 555-2 counted as 2
C6_Witness ==
    /\ duplicate_leads.done
    /\ phones = <<StrCell("555-1"), StrCell("555-1"), StrCell("555-2")>>
    /\ duplicate_leads.value = 2

----------------------------------------------------------------------------
(* Claim on the column guesser                                             *)

PrimaryHits(columns, role) ==
    {i \in 1..Len(columns) :
        \E j \in 1..Len(Keywords(role)) : Contains(Keywords(role)[j], normalize(columns[i]))}

SoftHits(columns, role) ==
    {i \in 1..Len(columns) : SoftMatch(role, normalize(columns[i]))}

First(S) == CHOOSE i \in S : \A j \in S : i <= j

\* C9: per role the guess is the first column, in dataset order, whose
\* normalized label contains any keyword; the fallback predicate is consulted
\* only when no column has a keyword, and then yields the first column
\* satisfying it; with neither, the result is "no match".
C9_GuessFirstColumnPrimaryWins ==
    guesses.done =>
        \A r \in RoleSet :
            LET P == PrimaryHits(cols, r)
                F == SoftHits(cols, r)
            IN  guesses.value[r] =
                    IF P # {} THEN Some(cols[First(P)])
                    ELSE IF F # {} THEN Some(cols[First(F)])
                    ELSE None

\* guesses computed on a list where, for one role, a fallback-only column
\* precedes the keyword column that is returned, and, for one role, no
\* column matches at all
C9_Witness ==
    /\ guesses.done
    /\ \E r \in RoleSet :
          /\ PrimaryHits(cols, r) # {} /\ SoftHits(cols, r) # {}
          /\ First(SoftHits(cols, r)) < First(PrimaryHits(cols, r))
          /\ guesses.value[r] = Some(cols[First(PrimaryHits(cols, r))])
    /\ \E r \in RoleSet : guesses.value[r] = None

----------------------------------------------------------------------------
(* Claims on the application                                               *)

Reached(step) == \E i \in 1..Len(run.steps) : run.steps[i] = step
LastStep == run.steps[Len(run.steps)]
MappingComplete == RendersSelectboxes(file) /\ \A r \in RoleSet : sel[r] # Sentinel

\* C1 (as stated): for each role the column fed to the signal extractor was
\* explicitly selected by the user, never merely the guesser's pre-selected
\* default; a run with no selection action after upload never reaches the
\* segment computation.
C1_Original_NoGuessUsedUnconfirmed ==
    /\ Reached("booleans") => \A r \in RoleSet : r \in touched
    /\ touched = {} => ~Reached("masks")

\* C1 (amended): the column fed to the extractor for each role is the current
\* value of that role's select box, which is the guessed column whenever the
\* user has not changed that box; a run with no selection action after upload
\* reaches the segment computation exactly when the guesser found a column for
\* all four roles and no mapped column fails to convert.
C1_GuessIsDefaultSelection ==
    /\ Reached("booleans") =>
          \A r \in RoleSet :
              /\ run.used[r] = sel[r]
              /\ r \notin touched => guess(file.cols, r) = Some(run.used[r])
    /\ (RendersSelectboxes(file) /\ touched = {}) =>
          /\ Reached("booleans") <=> \A r \in RoleSet : guess(file.cols, r).some
          /\ Reached("masks") <=>
                /\ \A r \in RoleSet : guess(file.cols, r).some
                /\ \A r \in RoleSet : ~Raises(column_of(file, guess(file.cols, r).col))

\* an upload followed by no selection at all, with the table displayed
C1_Witness ==
    /\ file.present
    /\ touched = {}
    /\ run.status = "done"
    /\ Reached("masks")

\* C2: signal extraction and segment counting are reached only when all four
\* selections differ from "-- select --"; otherwise the run halts with a
\* warning listing exactly the roles whose selection is the sentinel, and no
\* counts are produced.
C2_ComputationGatedOnCompleteMapping ==
    /\ Reached("booleans") => MappingComplete
    /\ (RendersSelectboxes(file) /\ ~MappingComplete) =>
          /\ run.status = "select"
          /\ Message(run.status)[1] = "st.warning"
          /\ LastStep = "validate"
          /\ {run.missing[i] : i \in 1..Len(run.missing)} = {r \in RoleSet : sel[r] = Sentinel}
          /\ Len(run.missing) = Cardinality({r \in RoleSet : sel[r] = Sentinel})
          /\ run.table = <<>>
          /\ ~Reached("booleans") /\ ~Reached("masks")

\* the warning lists exactly two roles after the user reset one select box
C2_Witness ==
    /\ run.status = "select"
    /\ touched # {}
    /\ Len(run.missing) = 2
    /\ \E r \in touched : sel[r] = Sentinel

\* C7: with no 'Phone Number' column the computation fails hard: for any
\* complete mapping the run ends in an error state, and no results table and
\* no segment count is output.
C7_MissingPhoneColumnFailsHard ==
    (RendersSelectboxes(file) /\ ~InCols(file.cols, PhoneLabel)) =>
        /\ run.table = <<>>
        /\ ~Reached("metrics") /\ ~Reached("table")
        /\ MappingComplete => run.status \in {"exception", "interp_error"}

\* a complete mapping chosen by the user on a file without the phone column,
\* ending in the uncaught lookup failure
C7_Witness ==
    /\ run.status = "exception"
    /\ touched # {}
    /\ ~InCols(file.cols, PhoneLabel)
    /\ Reached("masks")

\* C8: an unreadable file, a dataset with zero data rows, or a mapped column
\* whose signal extraction raises halts the run with a message at that step;
\* no later step is executed and no table is shown.
C8_UpstreamErrorsTerminal ==
    /\ (file.present /\ ~file.readable) =>
          /\ run.status = "read_error" /\ Message(run.status)[1] = "st.error"
          /\ run.steps = <<"upload", "read">>
          /\ run.table = <<>>
    /\ (file.present /\ file.readable /\ file.nrows = 0) =>
          /\ run.status = "empty" /\ Message(run.status)[1] = "st.warning"
          /\ run.steps = <<"upload", "read", "empty_check">>
          /\ run.table = <<>>
    /\ (MappingComplete /\ \E r \in RoleSet : Raises(column_of(file, sel[r]))) =>
          /\ run.status = "interp_error" /\ Message(run.status)[1] = "st.error"
          /\ LastStep = "booleans"
          /\ ~Reached("masks") /\ ~Reached("duplicates") /\ ~Reached("metrics")
          /\ ~Reached("table")
          /\ run.table = <<>>

\* the user mapped a role to the malformed column of a file that has the
\* phone column, and the run stopped at the conversion
C8_Witness ==
    /\ run.status = "interp_error"
    /\ touched # {}
    /\ InCols(file.cols, PhoneLabel)

====
